---- MODULE Spec2Model ----
(***************************************************************************)
(* Model of hvc/audiofileIO.py: the amplitude-threshold segmenter          *)
(* (segment_song) and the Song aggregate (Song.__init__, set_syls_to_use,  *)
(* make_syl_spects) together with the part of Spectrogram they call.       *)
(*                                                                         *)
(* Times in seconds are exact rationals [num, den] (den > 0); a Python     *)
(* array index k (0-based) is kept as the number k, while TLA+ sequences   *)
(* are 1-based, so python a[k] is a[k + 1] here.                           *)
(***************************************************************************)
EXTENDS Integers, Sequences, FiniteSets, TLC

VARIABLES segIn, segOut, segPrev, song, call, spectIn, spectOut

vars == <<segIn, segOut, segPrev, song, call, spectIn, spectOut>>

-----------------------------------------------------------------------------
(* Bounds of the model *)

\* longest enumerated envelope (in samples / time bins)
MaxLen == 5

\* largest minimum duration enumerated for min_syl_dur / min_silent_dur, in s
MaxDur == 2

\* number of samples in the recording of a Song
MaxSamples == 4

\* number of samples in the recording whose syllables are cut to a fixed width
MaxSylSamples == 8

-----------------------------------------------------------------------------
(* Exact rational arithmetic standing in for numpy float arithmetic *)

Rat(n, d) == [num |-> n, den |-> d]

RatOfInt(n) == Rat(n, 1)

RatLT(a, b) == a.num * b.den < b.num * a.den

RatGT(a, b) == RatLT(b, a)

RatLE(a, b) == ~RatLT(b, a)

RatEq(a, b) == a.num * b.den = b.num * a.den

RatSub(a, b) == Rat(a.num * b.den - b.num * a.den, a.den * b.den)

\* a / f for a positive integer f
RatDivInt(a, f) == Rat(a.num, a.den * f)

\* a * f for an integer f
RatMulInt(a, f) == Rat(a.num * f, a.den)

-----------------------------------------------------------------------------
(* Sequence helpers *)

\* the elements of s whose (1-based) index is in I, in their original order:
\* numpy's s[idx] for an ascending index array idx
Pick(s, I) ==
    LET F[k \in 0..Len(s)] ==
            IF k = 0 THEN <<>>
            ELSE IF k \in I THEN Append(F[k - 1], s[k]) ELSE F[k - 1]
    IN  F[Len(s)]

\* the members of the integer set S in the range lo..hi, ascending:
\* np.where(mask)[0]
Ascending(S, lo, hi) ==
    LET F[k \in (lo - 1)..hi] ==
            IF k = lo - 1 THEN <<>>
            ELSE IF k \in S THEN Append(F[k - 1], k) ELSE F[k - 1]
    IN  F[hi]

\* python None and an array, under one shape
None == [kind |-> "None", val |-> <<>>]

Arr(s) == [kind |-> "array", val |-> s]

\* an integer argument such as samp_freq
IntArg(f) == [kind |-> "int", val |-> f]

NoError == [kind |-> "none", what |-> "none"]

Err(k, w) == [kind |-> k, what |-> w]

-----------------------------------------------------------------------------
(* segment_song *)

\* amp > segment_params['threshold'], as 0/1
above_th(amp, threshold) ==
    [i \in 1..Len(amp) |-> IF amp[i] > threshold THEN 1 ELSE 0]

\* np.convolve([1, -1], above_th) at python index k, k in 0..N:
\* +1 where above_th rises, -1 where it falls, zeros assumed outside
above_th_convoluted(above, k) ==
    (IF k < Len(above) THEN above[k + 1] ELSE 0)
        - (IF k >= 1 THEN above[k] ELSE 0)

\* np.where(above_th_convoluted > 0)[0]
RisingEdges(above) ==
    Ascending({k \in 0..Len(above) : above_th_convoluted(above, k) > 0},
              0, Len(above))

\* np.where(above_th_convoluted < 0)[0]
FallingEdges(above) ==
    Ascending({k \in 0..Len(above) : above_th_convoluted(above, k) < 0},
              0, Len(above))

\* onsets[1:] - offsets[:-1], divided by samp_freq when it is given
silent_gap_durs(onsets, offsets, samp_freq) ==
    [i \in 1..(Len(onsets) - 1) |->
        LET d == RatSub(onsets[i + 1], offsets[i])
        IN  IF samp_freq.kind = "None" THEN d ELSE RatDivInt(d, samp_freq.val)]

MutGapKeep(gap, min_silent_dur) == RatLE(min_silent_dur, gap)

\* silent_gap_durs > segment_params['min_silent_dur']
GapKeep(gap, min_silent_dur) == RatGT(gap, min_silent_dur)

\* np.nonzero(silent_gap_durs > min_silent_dur), as 1-based positions
gap_keep_these(gaps, min_silent_dur) ==
    {i \in 1..Len(gaps) : GapKeep(gaps[i], min_silent_dur)}

MutMergeOnsets(onsets, keep) ==
    <<onsets[1]>> \o Pick(onsets, keep)

\* np.concatenate((onsets[0, np.newaxis], onsets[1:][keep_these]))
MergeOnsets(onsets, keep) ==
    <<onsets[1]>> \o Pick(onsets, {i + 1 : i \in keep})

MutMergeOffsets(offsets, keep) ==
    Pick(offsets, {i + 1 : i \in keep}) \o <<offsets[Len(offsets)]>>

\* np.concatenate((offsets[:-1][keep_these], offsets[-1, np.newaxis]))
MergeOffsets(offsets, keep) ==
    Pick(offsets, keep) \o <<offsets[Len(offsets)]>>

\* offsets - onsets, divided by samp_freq when it is given
syl_durs(onsets, offsets, samp_freq) ==
    [i \in 1..Len(onsets) |->
        LET d == RatSub(offsets[i], onsets[i])
        IN  IF samp_freq.kind = "None" THEN d ELSE RatDivInt(d, samp_freq.val)]

MutSylKeep(dur, min_syl_dur) == RatLE(min_syl_dur, dur)

\* syl_durs > segment_params['min_syl_dur']
SylKeep(dur, min_syl_dur) == RatGT(dur, min_syl_dur)

\* np.nonzero(syl_durs > min_syl_dur), as 1-based positions
syl_keep_these(durs, min_syl_dur) ==
    {i \in 1..Len(durs) : SylKeep(durs[i], min_syl_dur)}

\* onsets / samp_freq
ToSeconds(s, samp_freq) ==
    [i \in 1..Len(s) |->
        IF samp_freq.kind = "None" THEN s[i] ELSE RatDivInt(s[i], samp_freq.val)]

\* what a call leaves behind: how it ended, the returned pair, and the
\* intermediate arrays (candidate edges, edges after gap merging)
SegResult(st, er, on, off, cOn, cOff, mOn, mOff) ==
    [status |-> st, error |-> er, onsets |-> on, offsets |-> off,
     cand_onsets |-> cOn, cand_offsets |-> cOff,
     merged_onsets |-> mOn, merged_offsets |-> mOff]

SegRaise(er) == SegResult("raised", er, None, None, None, None, None, None)

MutAxisCheck(time_bins, samp_freq) ==
    IF time_bins.kind = "None" /\ samp_freq.kind = "None"
    THEN Err("ValueError", "axis_neither")
    ELSE NoError

\* the two guards on the axis arguments
AxisCheck(time_bins, samp_freq) ==
    IF time_bins.kind = "None" /\ samp_freq.kind = "None"
    THEN Err("ValueError", "axis_neither")
    ELSE IF time_bins.kind # "None" /\ samp_freq.kind # "None"
    THEN Err("ValueError", "axis_both")
    ELSE NoError

\* the body of segment_song after the axis guards
SegmentBody(amp, segment_params, time_bins, samp_freq) ==
    LET above == above_th(amp, segment_params.threshold)
        N     == Len(amp)
        rise  == RisingEdges(above)
        fall  == FallingEdges(above)
        at(k) == time_bins.val[k + 1]
        cOn   == IF time_bins.kind # "None"
                 THEN [i \in 1..Len(rise) |-> at(rise[i])]
                 ELSE [i \in 1..Len(rise) |-> RatOfInt(rise[i])]
        cOff  == IF time_bins.kind # "None"
                 THEN [i \in 1..Len(fall) |-> at(fall[i])]
                 ELSE [i \in 1..Len(fall) |-> RatOfInt(fall[i])]
        gaps  == silent_gap_durs(cOn, cOff, samp_freq)
        keepG == gap_keep_these(gaps, segment_params.min_silent_dur)
        mOn   == MergeOnsets(cOn, keepG)
        mOff  == MergeOffsets(cOff, keepG)
        durs  == syl_durs(mOn, mOff, samp_freq)
        keepS == syl_keep_these(durs, segment_params.min_syl_dur)
    IN  IF time_bins.kind # "None" /\ Len(time_bins.val) # N
        THEN SegRaise(Err("ValueError", "length"))
        ELSE IF time_bins.kind # "None"
                /\ \E i \in 1..Len(fall) : fall[i] >= Len(time_bins.val)
        THEN SegRaise(Err("IndexError", "time_bins"))
        ELSE IF Len(cOn) < 1 \/ Len(cOff) < 1
        THEN SegResult("returned", NoError, None, None,
                       Arr(cOn), Arr(cOff), None, None)
        ELSE SegResult("returned", NoError,
                       Arr(ToSeconds(Pick(mOn, keepS), samp_freq)),
                       Arr(ToSeconds(Pick(mOff, keepS), samp_freq)),
                       Arr(cOn), Arr(cOff), Arr(mOn), Arr(mOff))

segment_song(amp, segment_params, time_bins, samp_freq) ==
    IF AxisCheck(time_bins, samp_freq) # NoError
    THEN SegRaise(AxisCheck(time_bins, samp_freq))
    ELSE SegmentBody(amp, segment_params, time_bins, samp_freq)

-----------------------------------------------------------------------------
(* Spectrogram: the configuration object and the shape of what make returns *)

\* a python value with its type: V("int", 4), V("None", 0), V("str", "Hann")
V(t, v) == [t |-> t, v |-> v]

PyNone == V("None", 0)

\* the keyword arguments of Spectrogram.__init__ with their defaults;
\* has_ref is the presence of a key ('ref') the signature does not name
DefaultSpectParams ==
    [nperseg |-> PyNone, noverlap |-> PyNone,
     freq_cutoffs |-> V("default", <<500, 10000>>),
     window |-> PyNone, filter_func |-> PyNone, spect_func |-> PyNone,
     log_transform_spect |-> V("bool", TRUE), thresh |-> V("float", -4),
     remove_dc |-> V("bool", TRUE), has_ref |-> FALSE]

\* the first failing validation of Spectrogram.__init__, in source order
SpectrogramInitError(p) ==
    IF p.has_ref THEN Err("TypeError", "unexpected_keyword_ref")
    ELSE IF p.nperseg.t = "None" THEN Err("ValueError", "nperseg_required")
    ELSE IF p.noverlap.t = "None" THEN Err("ValueError", "noverlap_required")
    ELSE IF p.nperseg.t # "int" THEN Err("TypeError", "nperseg_type")
    ELSE IF p.noverlap.t # "int" THEN Err("TypeError", "noverlap_type")
    ELSE IF p.window.t \notin {"None", "str"} THEN Err("TypeError", "window_type")
    ELSE IF p.window.t = "str" /\ p.window.v \notin {"Hann", "dpss"}
    THEN Err("ValueError", "window_name")
    ELSE IF p.freq_cutoffs.t \notin {"None", "default", "list", "floatlist"}
    THEN Err("TypeError", "freq_cutoffs_type")
    ELSE IF p.freq_cutoffs.t \in {"list", "floatlist"} /\ Len(p.freq_cutoffs.v) # 2
    THEN Err("ValueError", "freq_cutoffs_length")
    ELSE IF p.freq_cutoffs.t = "floatlist"
    THEN Err("ValueError", "freq_cutoffs_ints")
    ELSE IF p.filter_func.t \notin {"None", "str"}
    THEN Err("TypeError", "filter_func_type")
    ELSE IF p.filter_func.t = "str"
            /\ p.filter_func.v \notin {"diff", "bandpass_filtfilt", "butter_bandpass"}
    THEN Err("ValueError", "filter_func_name")
    ELSE IF p.spect_func.t \notin {"None", "str"} THEN Err("TypeError", "spect_func_type")
    ELSE IF p.spect_func.t = "str" /\ p.spect_func.v \notin {"scipy", "mpl"}
    THEN Err("ValueError", "spect_func_name")
    ELSE IF p.log_transform_spect.t # "bool" THEN Err("ValueError", "log_transform_type")
    ELSE IF p.thresh.t \notin {"float", "None", "int"} THEN Err("ValueError", "thresh_type")
    ELSE IF p.remove_dc.t # "bool" THEN Err("TypeError", "remove_dc_type")
    ELSE NoError

\* the object Spectrogram.__init__ leaves when every validation passes
SpectrogramObject(p) ==
    [nperseg |-> p.nperseg.v,
     noverlap |-> p.noverlap.v,
     window |-> IF p.window.t = "None" THEN "None" ELSE p.window.v,
     freqCutoffs |-> IF p.freq_cutoffs.t = "None" THEN None ELSE Arr(p.freq_cutoffs.v),
     \* line 211 sets 'butter_bandpass', the else branch at line 221 then
     \* stores filter_func itself
     filterFunc |-> IF p.filter_func.t = "None" THEN "None" ELSE p.filter_func.v,
     spectFunc |-> IF p.spect_func.t = "None" THEN "scipy" ELSE p.spect_func.v,
     logTransformSpect |-> p.log_transform_spect.v,
     \* a thresh that is neither float nor None is stored as self.tresh
     thresh |-> p.thresh,
     remove_dc |-> p.remove_dc.v,
     attrs |-> {"nperseg", "noverlap", "window", "freqCutoffs", "filterFunc",
                "spectFunc", "logTransformSpect", "remove_dc"}
               \cup (IF p.thresh.t \in {"float", "None"} THEN {"thresh"} ELSE {"tresh"})]

\* number of samples handed to the transform after the pre-filter:
\* np.diff shortens by one, the Butterworth filters keep the length
FilteredLen(obj, n) ==
    IF obj.filterFunc = "diff" THEN (IF n > 0 THEN n - 1 ELSE 0) ELSE n

\* what the short-time transform of the backend library does with n samples:
\* "window_msg" is a ValueError whose text is 'window is longer than input
\* signal', "other_msg" any other ValueError, "none" a result.
\* scipy: an explicit window array longer than the input is refused; without
\* one nperseg is cut down to the input length and noverlap must stay below
\* it.  mpl: a short input is zero-padded to NFFT.
BackendRaises(obj, n) ==
    IF obj.nperseg < 1 THEN "other_msg"
    ELSE IF obj.spectFunc = "scipy" /\ obj.window # "None" /\ n < obj.nperseg
    THEN "window_msg"
    ELSE IF obj.spectFunc = "scipy" /\ obj.window = "None" /\ n < obj.nperseg
    THEN (IF obj.noverlap >= n THEN "other_msg" ELSE "none")
    ELSE IF obj.noverlap >= obj.nperseg \/ obj.noverlap < 0 THEN "other_msg"
    ELSE "none"

\* number of time bins the transform returns for n samples
TimeBinCount(obj, n) ==
    LET seg == IF n < obj.nperseg THEN (IF obj.spectFunc = "mpl" THEN obj.nperseg ELSE n)
               ELSE obj.nperseg
        len == IF n < seg THEN seg ELSE n
    IN  (len - obj.noverlap) \div (seg - obj.noverlap)

NanSpect == [kind |-> "nan", cols |-> 0]

\* Spectrogram.make on n samples: the error it raises, if any, and the
\* width of the matrix it returns
SpectrogramMake(obj, n) ==
    LET m   == FilteredLen(obj, n)
        lib == BackendRaises(obj, m)
    IN  IF lib = "window_msg" THEN [error |-> Err("WindowError", "window"), spect |-> NanSpect]
        ELSE IF lib = "other_msg" THEN [error |-> Err("ValueError", "backend"), spect |-> NanSpect]
        ELSE IF "thresh" \notin obj.attrs
        THEN [error |-> Err("AttributeError", "thresh"), spect |-> NanSpect]
        ELSE [error |-> NoError,
              spect |-> [kind |-> "ok", cols |-> TimeBinCount(obj, m)]]

\* the Butterworth band-pass pre-filters design their coefficients from
\* freqCutoffs / (samp_freq / 2): without cutoffs the division fails, and
\* the design refuses critical frequencies outside 0 < low < high < Nyquist
FilterError(obj, samp_freq) ==
    IF obj.filterFunc \notin {"bandpass_filtfilt", "butter_bandpass"} THEN NoError
    ELSE IF obj.freqCutoffs.kind = "None" THEN Err("TypeError", "cutoffs_is_None")
    ELSE IF ~(/\ 0 < obj.freqCutoffs.val[1]
              /\ obj.freqCutoffs.val[1] < obj.freqCutoffs.val[2]
              /\ 2 * obj.freqCutoffs.val[2] < samp_freq)
    THEN Err("ValueError", "critical_frequencies")
    ELSE NoError

\* the segment length the transform works with on m samples: scipy without
\* a window array cuts nperseg down to a shorter input
EffectiveNperseg(obj, m) ==
    IF m < obj.nperseg /\ obj.spectFunc = "scipy" /\ obj.window = "None"
    THEN m ELSE obj.nperseg

\* the one-sided frequency axis of the transform: bin k of a segment of seg
\* samples lies at k * samp_freq / seg, k = 0 .. seg // 2
BackendFreqBins(seg, samp_freq) ==
    [k \in 1..(seg \div 2 + 1) |-> Rat((k - 1) * samp_freq, seg)]

\* the rows of the matrix the transform returns, named by their bin k
BackendRows(seg) == [k \in 1..(seg \div 2 + 1) |-> k - 1]

\* x[1:]
DropFirst(q) == [i \in 1..(Len(q) - 1) |-> q[i + 1]]

Mutf_inds(freq_bins, freqCutoffs) ==
    {i \in 1..Len(freq_bins) :
        /\ RatLE(RatOfInt(freqCutoffs[1]), freq_bins[i])
        /\ RatLT(freq_bins[i], RatOfInt(freqCutoffs[2]))}

\* np.nonzero((freq_bins >= freqCutoffs[0]) & (freq_bins <= freqCutoffs[1]))[0],
\* as 1-based positions
f_inds(freq_bins, freqCutoffs) ==
    {i \in 1..Len(freq_bins) :
        /\ RatLE(RatOfInt(freqCutoffs[1]), freq_bins[i])
        /\ RatLE(freq_bins[i], RatOfInt(freqCutoffs[2]))}

MutCropRows(rows, inds) == rows

\* spect[f_inds, :]
CropRows(rows, inds) == Pick(rows, inds)

NoAxes == [error |-> NoError, spect |-> [rows |-> <<>>, cols |-> 0],
           freq_bins |-> <<>>, time_bins |-> 0]

\* Spectrogram.make(raw_audio, samp_freq) on n samples: the error it raises,
\* or the rows and column count of spect, freq_bins and the length of
\* time_bins
SpectrogramMakeAxes(obj, n, samp_freq) ==
    LET ferr  == FilterError(obj, samp_freq)
        shape == SpectrogramMake(obj, n)
        seg   == EffectiveNperseg(obj, FilteredLen(obj, n))
        fb0   == BackendFreqBins(seg, samp_freq)
        rows0 == BackendRows(seg)
        fb1   == IF obj.remove_dc THEN DropFirst(fb0) ELSE fb0
        rows1 == IF obj.remove_dc THEN DropFirst(rows0) ELSE rows0
        inds  == f_inds(fb1, obj.freqCutoffs.val)
    IN  IF ferr # NoError THEN [NoAxes EXCEPT !.error = ferr]
        ELSE IF shape.error # NoError THEN [NoAxes EXCEPT !.error = shape.error]
        ELSE IF obj.freqCutoffs.kind = "None"
        THEN [error |-> NoError,
              spect |-> [rows |-> rows1, cols |-> shape.spect.cols],
              freq_bins |-> fb1, time_bins |-> shape.spect.cols]
        ELSE [error |-> NoError,
              spect |-> [rows |-> CropRows(rows1, inds), cols |-> shape.spect.cols],
              freq_bins |-> Pick(fb1, inds), time_bins |-> shape.spect.cols]

\* a Spectrogram call sequence: the arguments, and what the calls have left
NoSpectIn == [p |-> DefaultSpectParams, n |-> 0, samp_freq |-> 0]

SpectPending ==
    [status |-> "pending", error |-> NoError,
     obj |-> SpectrogramObject(DefaultSpectParams), made |-> NoAxes]

-----------------------------------------------------------------------------
(* Song: construction *)

\* an optional argument: python None, or a value
Some(v) == [kind |-> "some", val |-> v]

\* np.round / python round: to the nearest integer, halves to the even one
RoundHalfEven(r) ==
    LET q   == r.num \div r.den
        rem == r.num - q * r.den
    IN  IF 2 * rem < r.den THEN q
        ELSE IF 2 * rem > r.den THEN q + 1
        ELSE IF q % 2 = 0 THEN q ELSE q + 1

\* samp_freq that read_song_txt and read_song_npy return for every file
TxtSampFreq == 30303

\* a Song object: attrs is the set of attribute names that exist on it,
\* rawLen the length of rawAudio
NoSong ==
    [state |-> "none", attrs |-> {}, filename |-> "", fileFormat |-> "",
     rawLen |-> 0, sampFreq |-> 0,
     onsets_s |-> None, offsets_s |-> None, onsets_Hz |-> None, offsets_Hz |-> None,
     labels |-> <<>>, syls_to_use |-> <<>>, syls |-> <<>>]

NoSegParams == [threshold |-> 0, min_syl_dur |-> Rat(0, 1), min_silent_dur |-> Rat(0, 1)]

NoAnnot ==
    [onsets |-> <<>>, offsets |-> <<>>, labels |-> <<>>,
     threshold |-> 0, min_dur |-> 0, min_int |-> 0]

NoInitArgs ==
    [file_format |-> "", use_annotation |-> TRUE,
     segment_params |-> [kind |-> "None", val |-> NoSegParams],
     spect_params |-> [kind |-> "None", val |-> DefaultSpectParams],
     annot |-> NoAnnot]

NoMakeArgs ==
    [spect_params |-> DefaultSpectParams, syl_spect_width |-> Rat(-1, 1),
     set_syl_spects |-> TRUE, return_spects |-> FALSE]

\* the last call on the Song: its arguments, the exception it raised, what
\* it returned, and for an exception about one segment that segment
NoCall ==
    [op |-> "none", error |-> NoError, loaded |-> FALSE,
     init |-> NoInitArgs, sel |-> V("none", <<>>), make |-> NoMakeArgs,
     width_Hz |-> -1, returned |-> None, ind |-> -1, label |-> "", file |-> ""]

KnownFormats == {"evtaf", "koumura", "wav_txt", "txt", "npy"}

\* the three comparisons of the evtaf branch, in source order
AnnotMismatch(segment_params, song_dict) ==
    IF segment_params.threshold # song_dict.threshold
    THEN Err("SegmentParametersMismatchError", "threshold")
    ELSE IF ~RatEq(segment_params.min_syl_dur, Rat(song_dict.min_dur, 1000))
    THEN Err("SegmentParametersMismatchError", "min_dur")
    ELSE IF ~RatEq(segment_params.min_silent_dur, Rat(song_dict.min_int, 1000))
    THEN Err("SegmentParametersMismatchError", "min_int")
    ELSE NoError

MutFreshArgsCheck(use_annotation, segment_params, spect_params) ==
    IF ~use_annotation /\ segment_params.kind = "None"
    THEN Err("ValueError", "no_segment_params")
    ELSE NoError

\* the two guards at the top of Song.__init__
FreshArgsCheck(use_annotation, segment_params, spect_params) ==
    IF ~use_annotation /\ segment_params.kind = "None"
    THEN Err("ValueError", "no_segment_params")
    ELSE IF ~use_annotation /\ spect_params.kind = "None"
    THEN Err("ValueError", "no_spect_params")
    ELSE NoError

\* the attributes set once the audio is loaded
LoadedSong(filename, file_format, file) ==
    [NoSong EXCEPT !.attrs = {"filename", "fileFormat", "rawAudio", "sampFreq"},
                   !.filename = filename, !.fileFormat = file_format,
                   !.rawLen = file.rawLen, !.sampFreq = file.sampFreq]

\* the annotation branch for 'evtaf': onsets and offsets come in ms
EvtafAnnotated(s, segment_params, song_dict) ==
    LET on_s  == [i \in 1..Len(song_dict.onsets) |-> Rat(song_dict.onsets[i], 1000)]
        off_s == [i \in 1..Len(song_dict.offsets) |-> Rat(song_dict.offsets[i], 1000)]
        err   == IF segment_params.kind = "None"
                 THEN Err("TypeError", "segment_params_is_None")
                 ELSE AnnotMismatch(segment_params.val, song_dict)
    IN  IF err # NoError THEN [song |-> [s EXCEPT !.state = "failed"], error |-> err]
        ELSE [song |->
                [s EXCEPT !.state = "ok",
                          !.attrs = @ \cup {"onsets_s", "offsets_s", "onsets_Hz",
                                            "offsets_Hz", "labels"},
                          !.onsets_s = Arr(on_s),
                          !.offsets_s = Arr(off_s),
                          !.onsets_Hz = Arr([i \in 1..Len(on_s) |->
                                RoundHalfEven(RatMulInt(on_s[i], s.sampFreq)) - 1]),
                          !.offsets_Hz = Arr([i \in 1..Len(off_s) |->
                                RoundHalfEven(RatMulInt(off_s[i], s.sampFreq))]),
                          !.labels = song_dict.labels],
              error |-> NoError]

\* the annotation branch for 'koumura', 'wav_txt', 'txt' and 'npy': onsets
\* and offsets come in samples and nothing is compared
SampleAnnotated(s, song_dict) ==
    [song |->
        [s EXCEPT !.state = "ok",
                  !.attrs = @ \cup {"onsets_s", "offsets_s", "onsets_Hz",
                                    "offsets_Hz", "labels"},
                  !.onsets_Hz = Arr(song_dict.onsets),
                  !.offsets_Hz = Arr(song_dict.offsets),
                  !.onsets_s = Arr([i \in 1..Len(song_dict.onsets) |->
                                        Rat(song_dict.onsets[i], s.sampFreq)]),
                  !.offsets_s = Arr([i \in 1..Len(song_dict.offsets) |->
                                        Rat(song_dict.offsets[i], s.sampFreq)]),
                  !.labels = song_dict.labels],
     error |-> NoError]

\* the branch that segments the song itself
FreshSegmented(s, segment_params, spect_params, amp) ==
    LET s1  == [s EXCEPT !.attrs = @ \cup {"spectParams", "segmentParams"}]
        seg == segment_song(amp, segment_params, None, IntArg(s.sampFreq))
        s2  == [s1 EXCEPT !.attrs = @ \cup {"onsets_s", "offsets_s"},
                          !.onsets_s = seg.onsets, !.offsets_s = seg.offsets]
    IN  IF s.fileFormat # "evtaf" /\ spect_params.freq_cutoffs.t = "default"
        THEN [song |-> [s1 EXCEPT !.state = "failed"],
              error |-> Err("KeyError", "freq_cutoffs")]
        ELSE IF seg.onsets.kind = "None"
        THEN [song |-> [s2 EXCEPT !.state = "failed"],
              error |-> Err("TypeError", "None_times_sampFreq")]
        ELSE [song |->
                [s2 EXCEPT !.state = "ok",
                           !.attrs = @ \cup {"onsets_Hz", "offsets_Hz", "labels"},
                           !.onsets_Hz = Arr([i \in 1..Len(seg.onsets.val) |->
                                RoundHalfEven(RatMulInt(seg.onsets.val[i], s.sampFreq))]),
                           !.offsets_Hz = Arr([i \in 1..Len(seg.offsets.val) |->
                                RoundHalfEven(RatMulInt(seg.offsets.val[i], s.sampFreq))]),
                           !.labels = [i \in 1..Len(seg.onsets.val) |-> "-"]],
              error |-> NoError]

\* Song.__init__(filename, file_format, segment_params, use_annotation,
\* spect_params) on a file holding rawLen samples at sampFreq, the envelope
\* amp that smooth_data computes from it, and the annotation annot
SongInitResult(filename, a, file) ==
    LET guard == FreshArgsCheck(a.use_annotation, a.segment_params, a.spect_params)
        s     == LoadedSong(filename, a.file_format, file)
        built == IF a.file_format \notin KnownFormats
                 THEN [song |-> [NoSong EXCEPT !.state = "failed",
                                               !.attrs = {"filename", "fileFormat"},
                                               !.filename = filename,
                                               !.fileFormat = a.file_format],
                       error |-> Err("UnboundLocalError", "raw_audio")]
                 ELSE IF ~a.use_annotation
                 THEN FreshSegmented(s, a.segment_params.val, a.spect_params.val, file.amp)
                 ELSE IF a.file_format = "evtaf"
                 THEN EvtafAnnotated(s, a.segment_params, file.annot)
                 ELSE SampleAnnotated(s, file.annot)
        base  == [NoCall EXCEPT !.op = "init", !.file = filename,
                                !.init = [file_format |-> a.file_format,
                                          use_annotation |-> a.use_annotation,
                                          segment_params |-> a.segment_params,
                                          spect_params |-> a.spect_params,
                                          annot |-> file.annot]]
    IN  IF guard # NoError
        THEN [song |-> [NoSong EXCEPT !.state = "failed"],
              call |-> [base EXCEPT !.error = guard]]
        ELSE [song |-> built.song,
              call |-> [base EXCEPT !.error = built.error,
                                    !.loaded = a.file_format \in KnownFormats]]

-----------------------------------------------------------------------------
(* Song: set_syls_to_use *)

SeqRange(q) == {q[i] : i \in 1..Len(q)}

\* the string 'all'
AllSelection == V("str", <<"a", "l", "l">>)

MutLabelMask(labels, labels_to_use) == [i \in 1..Len(labels) |-> TRUE]

\* the mask np.in1d(list(self.labels), labels_to_use)
LabelMask(labels, labels_to_use) ==
    [i \in 1..Len(labels) |-> labels[i] \in SeqRange(labels_to_use)]

\* the mask np.ones(self.onsets_s.shape, dtype=bool)
AllMask(onsets_s) == [i \in 1..Len(onsets_s.val) |-> TRUE]

\* set_syls_to_use(labels_to_use): a str is split into its characters, a
\* value that is neither list nor str is refused
SetSylsResult(s, sel) ==
    LET base == [NoCall EXCEPT !.op = "set_syls_to_use", !.sel = sel, !.file = s.filename]
    IN  IF sel # AllSelection /\ sel.t \notin {"list", "str"}
        THEN [song |-> s,
              call |-> [base EXCEPT !.error = Err("ValueError", "labels_to_use_type")]]
        ELSE [song |-> [s EXCEPT !.attrs = @ \cup {"syls_to_use"},
                                 !.syls_to_use =
                                    IF sel = AllSelection THEN AllMask(s.onsets_s)
                                    ELSE LabelMask(s.labels, sel.v)],
              call |-> base]

-----------------------------------------------------------------------------
(* Song: make_syl_spects *)

Min(a, b) == IF a < b THEN a ELSE b

Max(a, b) == IF a > b THEN a ELSE b

MutPySlice(n, a, b) ==
    LET norm(x) == IF x < 0 THEN Max(0, x + n) ELSE Min(x, n)
    IN  [lo |-> norm(a), hi |-> Max(norm(a), norm(b) - 1)]

\* the index range [lo, hi) that the python slice x[a:b] selects from an
\* array of n elements (a negative bound counts from the end)
PySlice(n, a, b) ==
    LET norm(x) == IF x < 0 THEN Max(0, x + n) ELSE Min(x, n)
    IN  [lo |-> norm(a), hi |-> Max(norm(a), norm(b))]

MutPySliceFrom(n, a) == [lo |-> 0, hi |-> n]

\* x[a:]
PySliceFrom(n, a) ==
    LET lo == IF a < 0 THEN Max(0, a + n) ELSE Min(a, n)
    IN  [lo |-> lo, hi |-> n]

SliceLen(sl) == sl.hi - sl.lo

\* int(syl_spect_width * self.sampFreq) for a positive width
WidthInSamples(width, sampFreq) == (width.num * sampFreq) \div width.den

MutLeftWidth(width_diff) == width_diff \div 2

\* int(round(width_diff / 2))
LeftWidth(width_diff) == RoundHalfEven(Rat(width_diff, 2))

MutFixedWidthSlice(rawLen, onset, offset, W) ==
    LET width_diff  == W - (offset - onset)
        left_width  == LeftWidth(width_diff)
        right_width == width_diff - left_width
    IN  IF left_width > onset THEN PySlice(rawLen, 0, W)
        ELSE PySlice(rawLen, onset - left_width, offset + right_width)

\* the audio of one segment when every spectrogram gets the width W
FixedWidthSlice(rawLen, onset, offset, W) ==
    LET width_diff  == W - (offset - onset)
        left_width  == LeftWidth(width_diff)
        right_width == width_diff - left_width
    IN  IF left_width > onset THEN PySlice(rawLen, 0, W)
        ELSE IF offset + right_width > rawLen THEN PySliceFrom(rawLen, -W)
        ELSE PySlice(rawLen, onset - left_width, offset + right_width)

\* self.rawAudio[onset:offset]
NativeSlice(rawLen, onset, offset) == PySlice(rawLen, onset, offset)

MutTooLong(dur, W) == dur >= W

\* syl_duration_in_samples > syl_spect_width_Hz
TooLong(dur, W) == dur > W

\* the syllable object built for segment ind (0-based)
Syllable(sl, spect, ind, label) ==
    [sylAudio |-> sl, spect |-> spect, index |-> ind, label |-> label]

\* the loop over zip(labels, onsets_Hz, offsets_Hz): F[k] is the state after
\* k segments, the list built so far or the exception that ended the loop
SylLoop(s, obj, hasW, W) ==
    LET n == Min(Len(s.labels), Min(Len(s.onsets_Hz.val), Len(s.offsets_Hz.val)))
        F[k \in 0..n] ==
            IF k = 0 THEN [error |-> NoError, ind |-> -1, all_syls |-> <<>>]
            ELSE
              LET prev   == F[k - 1]
                  onset  == s.onsets_Hz.val[k]
                  offset == s.offsets_Hz.val[k]
                  sl     == IF hasW THEN FixedWidthSlice(s.rawLen, onset, offset, W)
                            ELSE NativeSlice(s.rawLen, onset, offset)
                  made   == SpectrogramMake(obj, SliceLen(sl))
              IN  IF prev.error # NoError THEN prev
                  ELSE IF hasW /\ TooLong(offset - onset, W)
                  THEN [prev EXCEPT !.error = Err("ValueError", "syllable_too_long"),
                                    !.ind = k - 1]
                  ELSE IF k > Len(s.syls_to_use)
                  THEN [prev EXCEPT !.error = Err("IndexError", "syls_to_use"),
                                    !.ind = k - 1]
                  ELSE IF ~s.syls_to_use[k] THEN prev
                  ELSE IF made.error.kind = "WindowError"
                  THEN [prev EXCEPT !.all_syls =
                            Append(@, Syllable(sl, NanSpect, k - 1, s.labels[k]))]
                  ELSE IF made.error # NoError
                  THEN [prev EXCEPT !.error = made.error, !.ind = k - 1]
                  ELSE [prev EXCEPT !.all_syls =
                            Append(@, Syllable(sl, made.spect, k - 1, s.labels[k]))]
    IN  F[n]

\* np.stack accepts a non-empty list of equally shaped entries
Stackable(all_syls) ==
    /\ all_syls # <<>>
    /\ \A i \in 1..Len(all_syls) : all_syls[i].spect = all_syls[1].spect

MutHasSylsToUse(s) == TRUE

\* hasattr(self, 'syls_to_use')
HasSylsToUse(s) == "syls_to_use" \in s.attrs

MutStoredSyls(s, set_syl_spects, all_syls) ==
    [s EXCEPT !.attrs = @ \cup {"syls"}, !.syls = all_syls]

\* if set_syl_spects: self.syls = all_syls
StoredSyls(s, set_syl_spects, all_syls) ==
    IF set_syl_spects
    THEN [s EXCEPT !.attrs = @ \cup {"syls"}, !.syls = all_syls]
    ELSE s

\* make_syl_spects(spect_params, syl_spect_width, set_syl_spects, return_spects)
MakeSylSpectsResult(s, m) ==
    LET hasW  == RatGT(m.syl_spect_width, Rat(0, 1))
        W     == WidthInSamples(m.syl_spect_width, s.sampFreq)
        ierr  == SpectrogramInitError(m.spect_params)
        obj   == SpectrogramObject(m.spect_params)
        loop  == SylLoop(s, obj, hasW, W)
        base  == [NoCall EXCEPT !.op = "make_syl_spects", !.make = m,
                                !.file = s.filename,
                                !.width_Hz = IF hasW THEN W ELSE -1]
        stored == StoredSyls(s, m.set_syl_spects, loop.all_syls)
    IN  IF ~HasSylsToUse(s)
        THEN [song |-> s,
              call |-> [base EXCEPT !.error = Err("ValueError", "syls_to_use_not_set"),
                                    !.width_Hz = -1]]
        ELSE IF hasW /\ W > s.rawLen
        THEN [song |-> s,
              call |-> [base EXCEPT !.error = Err("ValueError", "width_longer_than_file")]]
        ELSE IF ierr # NoError
        THEN [song |-> s, call |-> [base EXCEPT !.error = ierr]]
        ELSE IF loop.error # NoError
        THEN [song |-> s,
              call |-> [base EXCEPT !.error = loop.error, !.ind = loop.ind,
                                    !.label = s.labels[loop.ind + 1]]]
        ELSE IF m.return_spects /\ ~Stackable(loop.all_syls)
        THEN [song |-> stored,
              call |-> [base EXCEPT !.error = Err("ValueError", "np_stack")]]
        ELSE [song |-> stored,
              call |-> [base EXCEPT !.returned =
                            IF m.return_spects
                            THEN Arr([i \in 1..Len(loop.all_syls) |->
                                        loop.all_syls[i].spect])
                            ELSE None]]

-----------------------------------------------------------------------------
(* The segmenter on its own: inputs of a call and what the call leaves *)

\* amplitude values around the threshold: below, equal, above
AmpValues == {0, 5000, 6000}

Thresholds == {5000}

\* the envelope of the end-to-end example
ExampleEnvelope ==
    <<0, 0, 6000, 6000, 6000, 0, 0, 0, 6000, 6000, 0, 0>>

\* an envelope with a one-sample run between two longer ones
ShortMiddleEnvelope ==
    <<6000, 6000, 0, 6000, 0, 6000, 6000, 0>>

Envelopes ==
    UNION {[1..n -> AmpValues] : n \in 1..MaxLen}
        \cup {ExampleEnvelope, ShortMiddleEnvelope}

\* min_syl_dur > 0 and min_silent_dur >= 0, in seconds
MinSylDurs == {Rat(k, 1) : k \in 1..MaxDur}

MinSilentDurs == {Rat(k, 1) : k \in 0..MaxDur}

SegmentParams ==
    [threshold : Thresholds, min_syl_dur : MinSylDurs, min_silent_dur : MinSilentDurs]

SampFreqs == {1, 2}

\* time bin centres as Spectrogram.make returns them: evenly spaced and
\* ascending, (1 + i * step) / 2 seconds for bin i
TimeBinsOf(n, step) == [i \in 1..n |-> Rat(1 + (i - 1) * step, 2)]

\* the (time_bins, samp_freq) pairs a caller may pass for an envelope of
\* length n: one of the two, both, neither, or a time_bins of another length
AxisArgs(n) ==
    {<<None, IntArg(f)>> : f \in SampFreqs}
        \cup {<<Arr(TimeBinsOf(n, step)), None>> : step \in {1, 2}}
        \cup {<<Arr(TimeBinsOf(n + 1, 1)), None>>,
              <<Arr(TimeBinsOf(n, 1)), IntArg(1)>>,
              <<None, None>>}

SegPending == SegResult("pending", NoError, None, None, None, None, None, None)

NoSegIn ==
    [amp |-> <<>>, segment_params |-> [threshold |-> 0, min_syl_dur |-> Rat(0, 1),
                                       min_silent_dur |-> Rat(0, 1)],
     time_bins |-> None, samp_freq |-> None]

InitSegment ==
    /\ \E amp \in Envelopes, sp \in SegmentParams :
         \E ax \in AxisArgs(Len(amp)) :
            segIn = [amp |-> amp, segment_params |-> sp,
                     time_bins |-> ax[1], samp_freq |-> ax[2]]
    /\ segOut = SegPending
    /\ segPrev = SegPending
    /\ song = NoSong
    /\ call = NoCall
    /\ spectIn = NoSpectIn
    /\ spectOut = SpectPending

MutInputsAfterCall(in) ==
    [in EXCEPT !.amp = [i \in 1..Len(in.amp) |->
                            IF in.amp[i] > in.segment_params.threshold
                            THEN in.amp[i] ELSE 0]]

\* the caller's arguments after segment_song returns or raises: the function
\* only binds new local arrays (amp > threshold, np.convolve, np.where,
\* indexing, np.concatenate) and never assigns into amp, time_bins or
\* segment_params
InputsAfterCall(in) == in

\* segment_song on the drawn inputs, called up to twice: segPrev is what
\* the call before this one left
SegmentSong ==
    /\ segPrev.status = "pending"
    /\ segOut' = segment_song(segIn.amp, segIn.segment_params,
                              segIn.time_bins, segIn.samp_freq)
    /\ segPrev' = segOut
    /\ segIn' = InputsAfterCall(segIn)
    /\ UNCHANGED <<song, call, spectIn, spectOut>>

NextSegment == SegmentSong

SpecSegment == InitSegment /\ [][NextSegment]_vars

-----------------------------------------------------------------------------
(* Claims about segment_song, checked under SpecSegment *)

SegDone == segOut.status # "pending"

SegReturnedArrays ==
    /\ segOut.status = "returned"
    /\ segOut.onsets.kind = "array"
    /\ segOut.offsets.kind = "array"

ExactlyOneAxis ==
    (segIn.time_bins.kind = "None") # (segIn.samp_freq.kind = "None")

\* the duration in seconds between two positions of the arrays before the
\* final conversion (samples when samp_freq is given, seconds otherwise)
SecondsBetween(a, b) ==
    IF segIn.samp_freq.kind = "None" THEN RatSub(b, a)
    ELSE RatDivInt(RatSub(b, a), segIn.samp_freq.val)

\* C1: the onsets and offsets that segment_song returns have equal length,
\* every offset lies after its onset, and every onset lies at or after the
\* previous offset.
C1_BoundaryInvariant ==
    SegReturnedArrays =>
        LET on == segOut.onsets.val
            off == segOut.offsets.val
        IN  /\ Len(on) = Len(off)
            /\ \A i \in 1..Len(on) : RatGT(off[i], on[i])
            /\ \A i \in 1..(Len(on) - 1) : RatLE(off[i], on[i + 1])

C1_Witness ==
    /\ SegReturnedArrays
    /\ Len(segOut.onsets.val) >= 2
    /\ segIn.time_bins.kind = "array"

\* C2: two consecutive above-threshold runs are merged exactly when the
\* silent gap between them is shorter than min_silent_dur; a gap equal to or
\* longer than min_silent_dur leaves them separate.
C2_MergedIffGapShorter ==
    (segOut.status = "returned" /\ segOut.merged_onsets.kind = "array") =>
        LET cOn == segOut.cand_onsets.val
            cOff == segOut.cand_offsets.val
            separate(i) ==
                /\ \E j \in 1..Len(segOut.merged_onsets.val) :
                      segOut.merged_onsets.val[j] = cOn[i + 1]
                /\ \E j \in 1..Len(segOut.merged_offsets.val) :
                      segOut.merged_offsets.val[j] = cOff[i]
        IN  \A i \in 1..(Len(cOn) - 1) :
                separate(i) <=>
                    RatLE(segIn.segment_params.min_silent_dur,
                          SecondsBetween(cOff[i], cOn[i + 1]))

C4_SilentReturnsEmptyArrays ==
    (/\ SegDone
     /\ ExactlyOneAxis
     /\ segOut.status = "returned"
     /\ \A i \in 1..Len(segIn.amp) : segIn.amp[i] <= segIn.segment_params.threshold)
    => (/\ segOut.onsets = Arr(<<>>)
        /\ segOut.offsets = Arr(<<>>))

\* C5: segment_song raises, before any boundary is computed, when both
\* time_bins and samp_freq are given and when neither is; with exactly one of
\* them it does not raise for that reason.
C5_AxisGuard ==
    SegDone =>
        /\ ~ExactlyOneAxis =>
              /\ segOut.status = "raised"
              /\ segOut.error.kind = "ValueError"
              /\ segOut.error.what \in {"axis_both", "axis_neither"}
              /\ segOut.cand_onsets = None
              /\ segOut.onsets = None
        /\ ExactlyOneAxis => segOut.error.what \notin {"axis_both", "axis_neither"}

C5_Witness ==
    /\ segOut.status = "raised"
    /\ segIn.time_bins.kind = "array"
    /\ segIn.samp_freq.kind = "int"
    /\ \E i \in 1..Len(segIn.amp) : segIn.amp[i] > segIn.segment_params.threshold

-----------------------------------------------------------------------------
(* The Song life cycle: construction, set_syls_to_use, make_syl_spects *)

Seg(a, b) == <<a, b>>

Onsets(segs) == [i \in 1..Len(segs) |-> segs[i][1]]

Offsets(segs) == [i \in 1..Len(segs) |-> segs[i][2]]

LabelSeqs(n) == [1..n -> {"a", "b"}]

\* segment lists of annotations that count in samples
SampleSegs ==
    {<<>>, <<Seg(0, 2)>>, <<Seg(1, 4)>>, <<Seg(0, 1), Seg(2, 4)>>, <<Seg(0, 1), Seg(1, 4)>>}

\* segment lists of .not.mat annotations, in ms
MsSegs ==
    {<<>>, <<Seg(0, 1000)>>, <<Seg(1000, 2000)>>, <<Seg(500, 1500), Seg(1500, 2000)>>}

RecordedParams ==
    [threshold : {1500, 5000}, min_dur : {1000, 2000}, min_int : {0, 1000}]

Annotations(segLists, recorded) ==
    {[onsets |-> Onsets(segs), offsets |-> Offsets(segs), labels |-> labels,
      threshold |-> r.threshold, min_dur |-> r.min_dur, min_int |-> r.min_int] :
        <<segs, labels, r>> \in
            {t \in segLists \X (UNION {LabelSeqs(n) : n \in 0..2}) \X recorded :
                Len(t[1]) = Len(t[2])}}

SongSegmentParams ==
    [threshold : {1500, 5000}, min_syl_dur : {Rat(1, 1), Rat(2, 1)},
     min_silent_dur : {Rat(0, 1), Rat(1, 1)}]

\* envelopes smooth_data may return for the recording
SongEnvelopes == [1..MaxSamples -> {0, 6000}]

\* spect_params dictionaries
ValidSpectParams ==
    [DefaultSpectParams EXCEPT !.nperseg = V("int", 2), !.noverlap = V("int", 1),
                               !.freq_cutoffs = V("list", <<1000, 8000>>)]

WindowSpectParams == [ValidSpectParams EXCEPT !.window = V("str", "Hann")]

NoOverlapSpectParams == [ValidSpectParams EXCEPT !.noverlap = PyNone]

NoCutoffsSpectParams ==
    [DefaultSpectParams EXCEPT !.nperseg = V("int", 2), !.noverlap = V("int", 1)]

\* sampling rates of the recordings, by file format
FileSampFreqs(file_format) ==
    IF file_format \in {"txt", "npy"} THEN {TxtSampFreq}
    ELSE IF file_format = "evtaf" THEN {1, 2}
    ELSE {2}

NoEnvelope == [i \in 1..MaxSamples |-> 0]

\* construction from an annotation: arguments and file
AnnotatedCases ==
    {[args |-> [file_format |-> ff, use_annotation |-> TRUE,
                segment_params |-> sp,
                spect_params |-> [kind |-> "None", val |-> DefaultSpectParams]],
      file |-> [rawLen |-> MaxSamples, sampFreq |-> f, amp |-> NoEnvelope, annot |-> an]] :
        <<ff, sp, f, an>> \in
            {t \in (KnownFormats \cup {"aiff"})
                    \X ({[kind |-> "None", val |-> NoSegParams]}
                            \cup {Some(x) : x \in SongSegmentParams})
                    \X {1, 2, TxtSampFreq}
                    \X (Annotations(SampleSegs, RecordedParams)
                            \cup Annotations(MsSegs, RecordedParams)) :
                /\ t[3] \in FileSampFreqs(t[1])
                /\ IF t[1] = "evtaf" THEN t[4] \in Annotations(MsSegs, RecordedParams)
                   ELSE /\ t[4] \in Annotations(SampleSegs, {[threshold |-> 1500,
                                                            min_dur |-> 1000,
                                                            min_int |-> 0]})
                        /\ t[2].val.min_syl_dur = Rat(1, 1) \/ t[2].kind = "None"
                        /\ t[2].val.min_silent_dur = Rat(0, 1) \/ t[2].kind = "None"}}

\* construction by segmenting: arguments and file
FreshCases ==
    {[args |-> [file_format |-> ff, use_annotation |-> FALSE,
                segment_params |-> sp, spect_params |-> pp],
      file |-> [rawLen |-> MaxSamples, sampFreq |-> f, amp |-> amp, annot |-> NoAnnot]] :
        <<ff, sp, pp, f, amp>> \in
            {t \in {"evtaf", "koumura", "txt"}
                    \X ({[kind |-> "None", val |-> NoSegParams]}
                            \cup {Some(x) : x \in SongSegmentParams})
                    \X {[kind |-> "None", val |-> DefaultSpectParams],
                        Some(ValidSpectParams), Some(NoCutoffsSpectParams)}
                    \X {1, 2, TxtSampFreq}
                    \X SongEnvelopes :
                /\ t[4] \in FileSampFreqs(t[1])
                /\ t[2].val.threshold = 5000 \/ t[2].kind = "None"}}

Filenames == {"song1"}

\* selections a caller passes to set_syls_to_use
Selections ==
    {AllSelection, V("str", <<"a">>), V("str", <<"a", "b">>), V("str", <<>>),
     V("list", <<"b">>), V("list", <<"a", "l", "l">>), V("tuple", <<"a">>),
     V("int", <<>>)}

\* arguments a caller passes to make_syl_spects
MakeArgs ==
    [spect_params : {ValidSpectParams, WindowSpectParams, NoOverlapSpectParams},
     syl_spect_width : {Rat(-1, 1), Rat(1, 1)},
     set_syl_spects : BOOLEAN, return_spects : BOOLEAN]

Init ==
    /\ segIn = NoSegIn
    /\ segOut = SegPending
    /\ segPrev = SegPending
    /\ song = NoSong
    /\ call = NoCall
    /\ spectIn = NoSpectIn
    /\ spectOut = SpectPending

\* Song(filename, file_format, ...) for one of the given cases
SongInitOver(cases) ==
    /\ song.state = "none"
    /\ \E fn \in Filenames, c \in cases :
          LET r == SongInitResult(fn, c.args, c.file)
          IN  /\ song' = r.song
              /\ call' = r.call
    /\ UNCHANGED <<segIn, segOut, segPrev, spectIn, spectOut>>

\* song.set_syls_to_use(sel)
SetSylsToUseOver(sels) ==
    /\ song.state = "ok"
    /\ \E sel \in sels :
          LET r == SetSylsResult(song, sel)
          IN  /\ song' = r.song
              /\ call' = r.call
    /\ UNCHANGED <<segIn, segOut, segPrev, spectIn, spectOut>>

\* song.make_syl_spects(...)
MakeSylSpectsOver(margs) ==
    /\ song.state = "ok"
    /\ \E m \in margs :
          LET r == MakeSylSpectsResult(song, m)
          IN  /\ song' = r.song
              /\ call' = r.call
    /\ UNCHANGED <<segIn, segOut, segPrev, spectIn, spectOut>>

SongInit == SongInitOver(AnnotatedCases \cup FreshCases)

SetSylsToUse == SetSylsToUseOver(Selections)

MakeSylSpects == MakeSylSpectsOver(MakeArgs)

Next == SongInit \/ SetSylsToUse \/ MakeSylSpects

Spec == Init /\ [][Next]_vars

-----------------------------------------------------------------------------
(* Claims about the Song life cycle, checked under Spec *)

InitCall == call.op = "init"

SuppliedParams == call.init.segment_params.val

\* C6: construction from an annotation whose recorded threshold
\* differs from segment_params['threshold'] fails with
\* SegmentParametersMismatchError for every supported file format.
C6_MismatchFailsForEveryFormat ==
    (/\ InitCall
     /\ call.init.use_annotation
     /\ call.init.file_format \in KnownFormats
     /\ call.init.segment_params.kind = "some"
     /\ SuppliedParams.threshold # call.init.annot.threshold)
    => call.error.kind = "SegmentParametersMismatchError"

\* C6, what the code does: for file_format 'evtaf' with segment_params given,
\* a recorded threshold, min_dur or min_int (ms, converted to s) that
\* disagrees with segment_params fails with SegmentParametersMismatchError
\* naming the first disagreeing field, and agreement of all three does not
\* fail; for koumura, wav_txt, txt and npy nothing is compared and the error
\* is never raised.
C6_MismatchFailsForEvtaf ==
    (InitCall /\ call.init.use_annotation /\ call.init.segment_params.kind = "some") =>
        LET an == call.init.annot
            thDiff  == SuppliedParams.threshold # an.threshold
            durDiff == SuppliedParams.min_syl_dur.num * 1000
                          # an.min_dur * SuppliedParams.min_syl_dur.den
            intDiff == SuppliedParams.min_silent_dur.num * 1000
                          # an.min_int * SuppliedParams.min_silent_dur.den
        IN  IF call.init.file_format = "evtaf"
            THEN /\ thDiff => call.error = Err("SegmentParametersMismatchError", "threshold")
                 /\ (~thDiff /\ durDiff)
                        => call.error = Err("SegmentParametersMismatchError", "min_dur")
                 /\ (~thDiff /\ ~durDiff /\ intDiff)
                        => call.error = Err("SegmentParametersMismatchError", "min_int")
                 /\ (~thDiff /\ ~durDiff /\ ~intDiff)
                        => (call.error = NoError /\ song.state = "ok")
            ELSE call.error.kind # "SegmentParametersMismatchError"

\* C7: with use_annotation False, a missing segment_params or spect_params
\* makes the constructor raise ValueError before the audio is loaded and
\* before any attribute is set.
C7_FreshNeedsBothParams ==
    (/\ InitCall
     /\ ~call.init.use_annotation
     /\ (call.init.segment_params.kind = "None" \/ call.init.spect_params.kind = "None"))
    => (/\ call.error.kind = "ValueError"
        /\ call.error.what \in {"no_segment_params", "no_spect_params"}
        /\ ~call.loaded
        /\ song.attrs = {}
        /\ song.state = "failed")

C7_Witness ==
    /\ InitCall
    /\ ~call.init.use_annotation
    /\ call.init.segment_params.kind = "some"
    /\ call.init.spect_params.kind = "None"
    /\ call.error = Err("ValueError", "no_spect_params")

\* C8: a Song holds syllables only if set_syls_to_use has set syls_to_use on
\* it before; make_syl_spects on a Song without syls_to_use raises ValueError,
\* returns nothing and leaves the Song without a syls list.
C8_SetBeforeMake ==
    /\ ("syls" \in song.attrs) => ("syls_to_use" \in song.attrs)
    /\ (call.op = "make_syl_spects" /\ "syls_to_use" \notin song.attrs)
          => (/\ call.error = Err("ValueError", "syls_to_use_not_set")
              /\ "syls" \notin song.attrs
              /\ song.syls = <<>>
              /\ call.returned = None)
    /\ (call.op = "make_syl_spects" /\ call.error = NoError)
          => "syls_to_use" \in song.attrs

C8_Witness ==
    /\ call.op = "make_syl_spects"
    /\ call.make.set_syl_spects
    /\ "syls_to_use" \notin song.attrs
    /\ call.error = Err("ValueError", "syls_to_use_not_set")
    /\ song.labels = <<>>

\* C9: after set_syls_to_use(selection), syls_to_use has one boolean per
\* segment: all true for 'all', otherwise true exactly where the label is one
\* of the given symbols; a selection that is neither list nor str raises
\* ValueError.
C9_MaskMatchesSelection ==
    call.op = "set_syls_to_use" =>
        IF call.sel.t \in {"list", "str"}
        THEN /\ call.error = NoError
             /\ "syls_to_use" \in song.attrs
             /\ Len(song.syls_to_use) = Len(song.labels)
             /\ Len(song.syls_to_use) = Len(song.onsets_s.val)
             /\ Len(song.syls_to_use) = Len(song.onsets_Hz.val)
             /\ \A i \in 1..Len(song.syls_to_use) :
                   song.syls_to_use[i] =
                      IF call.sel = AllSelection THEN TRUE
                      ELSE \E j \in 1..Len(call.sel.v) : call.sel.v[j] = song.labels[i]
        ELSE call.error.kind = "ValueError"

C9_Witness ==
    /\ call.op = "set_syls_to_use"
    /\ call.sel = V("str", <<"a">>)
    /\ song.labels = <<"b", "a">>
    /\ song.syls_to_use = <<FALSE, TRUE>>

\* C10: with a positive syl_spect_width, make_syl_spects fails when a
\* segment's duration in samples exceeds the width in samples, the error
\* names the first such segment (index, label, file) unless an earlier step
\* of the call already failed, and the error is never raised when every
\* duration is at most the width.
C10_TooLongSegmentRefused ==
    (call.op = "make_syl_spects" /\ "syls_to_use" \in song.attrs) =>
        LET W == call.width_Hz
            hasW == call.make.syl_spect_width.num > 0
            n == Len(song.onsets_Hz.val)
            dur(i) == song.offsets_Hz.val[i] - song.onsets_Hz.val[i]
            long == {i \in 1..n : hasW /\ dur(i) > W}
            first == CHOOSE i \in long : \A j \in long : i <= j
            tooLong == call.error = Err("ValueError", "syllable_too_long")
        IN  /\ long = {} => ~tooLong
            /\ long # {} =>
                  /\ call.error # NoError
                  /\ tooLong => (/\ call.ind = first - 1
                                 /\ call.label = song.labels[first]
                                 /\ call.file = song.filename)
                  /\ ~tooLong =>
                        \/ call.error.what = "width_longer_than_file"
                        \/ SpectrogramInitError(call.make.spect_params) # NoError
                        \/ (call.ind >= 0 /\ call.ind < first - 1)

C10_Witness ==
    /\ call.op = "make_syl_spects"
    /\ call.error = Err("ValueError", "syllable_too_long")
    /\ call.ind = 1
    /\ call.label = "b"
    /\ Len(song.labels) = 2
    /\ song.offsets_Hz.val[1] - song.onsets_Hz.val[1] <= call.width_Hz

-----------------------------------------------------------------------------
(* Cutting syllables out of one recording: every segment position and every *)
(* fixed width of a recording of MaxSylSamples samples                      *)

\* one or two segments with 0 <= onset < offset <= MaxSylSamples, in order
\* and not overlapping
SylSegs ==
    {<<Seg(a, b)>> : <<a, b>> \in
        {t \in (0..MaxSylSamples) \X (0..MaxSylSamples) : t[1] < t[2]}}
    \cup
    {<<Seg(q[1], q[2]), Seg(q[3], q[4])>> : q \in
        {t \in (0..MaxSylSamples) \X (0..MaxSylSamples)
                \X (0..MaxSylSamples) \X (0..MaxSylSamples) :
            t[1] < t[2] /\ t[2] <= t[3] /\ t[3] < t[4]}}

SylLabels(n) == IF n = 1 THEN <<"a">> ELSE <<"a", "b">>

\* a recording sampled at 2 Hz with a sample-unit annotation
SylCases ==
    {[args |-> [file_format |-> "koumura", use_annotation |-> TRUE,
                segment_params |-> [kind |-> "None", val |-> NoSegParams],
                spect_params |-> [kind |-> "None", val |-> DefaultSpectParams]],
      file |-> [rawLen |-> MaxSylSamples, sampFreq |-> 2,
                amp |-> [i \in 1..MaxSylSamples |-> 0],
                annot |-> [NoAnnot EXCEPT !.onsets = Onsets(segs),
                                          !.offsets = Offsets(segs),
                                          !.labels = SylLabels(Len(segs))]]] :
        segs \in SylSegs}

\* segments of one sample need a transform without overlap
SylSpectParams == [ValidSpectParams EXCEPT !.noverlap = V("int", 0)]

\* no fixed width, and every width from half a second (one sample) to one
\* sample more than the recording holds
SylWidths == {Rat(-1, 1)} \cup {Rat(k, 2) : k \in 1..(MaxSylSamples + 1)}

SylMakeArgs ==
    [spect_params : {SylSpectParams}, syl_spect_width : SylWidths,
     set_syl_spects : {TRUE}, return_spects : {FALSE}]

SylSongInit == SongInitOver(SylCases)

SylSetSylsToUse == SetSylsToUseOver({AllSelection, V("str", <<"b">>)})

SylMakeSylSpects == MakeSylSpectsOver(SylMakeArgs)

NextSyl == SylSongInit \/ SylSetSylsToUse \/ SylMakeSylSpects

SpecSyl == Init /\ [][NextSyl]_vars

-----------------------------------------------------------------------------
(* Claims about the audio slices, checked under SpecSyl *)

\* the last call was a make_syl_spects that stored its syllable list
MadeSyls ==
    /\ call.op = "make_syl_spects"
    /\ call.error = NoError
    /\ call.make.set_syl_spects

FixedWidthCall == MadeSyls /\ call.make.syl_spect_width.num > 0

\* onset, offset and duration of the segment a stored syllable was cut from
SylOnset(syl) == song.onsets_Hz.val[syl.index + 1]

SylOffset(syl) == song.offsets_Hz.val[syl.index + 1]

SylDur(syl) == SylOffset(syl) - SylOnset(syl)

\* the padding W - d of a stored syllable
WidthDiff(syl) == call.width_Hz - SylDur(syl)

\* the segment sits far enough from both ends of the recording for the larger
\* half of the padding to fit on either side
AwayFromBoundaries(syl) ==
    /\ SylOnset(syl) >= (WidthDiff(syl) + 1) \div 2
    /\ SylOffset(syl) + (WidthDiff(syl) + 1) \div 2 <= song.rawLen

\* C11: after make_syl_spects with a positive width of W samples, W at most
\* the length of the recording and no segment longer than W, the audio slice
\* of every stored syllable has exactly W samples, whichever of the three
\* branches cut it.
C11_SliceHasFixedWidth ==
    FixedWidthCall =>
        /\ call.width_Hz <= song.rawLen
        /\ \A i \in 1..Len(song.onsets_Hz.val) :
              song.offsets_Hz.val[i] - song.onsets_Hz.val[i] <= call.width_Hz
        /\ \A i \in 1..Len(song.syls) :
              SliceLen(song.syls[i].sylAudio) = call.width_Hz

\* two syllables of one call: the first cut from the start of the recording,
\* the second from its end
C11_Witness ==
    /\ FixedWidthCall
    /\ Len(song.syls) = 2
    /\ call.width_Hz = 4
    /\ SylDur(song.syls[1]) = 1
    /\ song.syls[1].sylAudio = [lo |-> 0, hi |-> 4]
    /\ SylOnset(song.syls[1]) = 1
    /\ song.syls[2].sylAudio = [lo |-> MaxSylSamples - 4, hi |-> MaxSylSamples]
    /\ SylOffset(song.syls[2]) = MaxSylSamples

\* C12 as the code has it: away from the recording boundaries the padding
\* W - d is split into left = round-half-to-even((W - d) / 2) and
\* right = (W - d) - left, so the two pads differ by at most one, the extra
\* sample of an odd padding lies on the right when W - d = 1 (mod 4) and on
\* the left when W - d = 3 (mod 4), and the true onset lies at most
\* ceil((W - d) / 2) samples from the slice's left edge.
C12_PaddingSplitHalfEven ==
    FixedWidthCall =>
        \A i \in 1..Len(song.syls) :
            LET syl   == song.syls[i]
                diff  == WidthDiff(syl)
                left  == IF diff % 4 = 3 THEN (diff + 1) \div 2 ELSE diff \div 2
                right == diff - left
            IN  AwayFromBoundaries(syl) =>
                    /\ syl.sylAudio.lo = SylOnset(syl) - left
                    /\ syl.sylAudio.hi = SylOffset(syl) + right
                    /\ left - right \in {-1, 0, 1}
                    /\ SylOnset(syl) - syl.sylAudio.lo <= (diff + 1) \div 2

\* a padding of three samples around a one-sample segment: two on the left
C12_Witness ==
    /\ FixedWidthCall
    /\ Len(song.syls) = 1
    /\ call.width_Hz = 4
    /\ SylOnset(song.syls[1]) = 3
    /\ SylOffset(song.syls[1]) = 4
    /\ AwayFromBoundaries(song.syls[1])
    /\ song.syls[1].sylAudio = [lo |-> 1, hi |-> 5]

\* C12: away from the recording boundaries the left pad is floor((W - d) / 2)
\* and the right pad ceil((W - d) / 2) for every W - d >= 0, so the true onset
\* lies at most floor((W - d) / 2) samples from the slice's left edge.
C12_ExtraSampleOnRight ==
    FixedWidthCall =>
        \A i \in 1..Len(song.syls) :
            LET syl  == song.syls[i]
                diff == WidthDiff(syl)
            IN  AwayFromBoundaries(syl) =>
                    /\ syl.sylAudio.lo = SylOnset(syl) - diff \div 2
                    /\ syl.sylAudio.hi = SylOffset(syl) + (diff + 1) \div 2
                    /\ SylOnset(syl) - syl.sylAudio.lo <= diff \div 2

\* C13: with a fixed width W and the pads left, right that the code computes,
\* a stored syllable's slice is the first W samples of the recording if
\* left > onset, otherwise the last W samples if offset + right exceeds the
\* length of the recording, otherwise [onset - left, offset + right); without
\* a fixed width it is exactly [onset, offset).
C13_SliceBranches ==
    MadeSyls =>
        \A i \in 1..Len(song.syls) :
            LET syl    == song.syls[i]
                onset  == SylOnset(syl)
                offset == SylOffset(syl)
                W      == call.width_Hz
                diff   == W - (offset - onset)
                left   == IF diff % 4 = 3 THEN (diff + 1) \div 2 ELSE diff \div 2
                right  == diff - left
            IN  IF call.make.syl_spect_width.num > 0
                THEN IF left > onset
                     THEN syl.sylAudio = [lo |-> 0, hi |-> W]
                     ELSE IF offset + right > song.rawLen
                     THEN syl.sylAudio = [lo |-> song.rawLen - W, hi |-> song.rawLen]
                     ELSE syl.sylAudio = [lo |-> onset - left, hi |-> offset + right]
                ELSE syl.sylAudio = [lo |-> onset, hi |-> offset]

\* one call that centres its first syllable and cuts the second from the end
C13_Witness ==
    /\ FixedWidthCall
    /\ Len(song.syls) = 2
    /\ call.width_Hz = 4
    /\ SylOnset(song.syls[1]) = 2
    /\ song.syls[1].sylAudio = [lo |-> 1, hi |-> 5]
    /\ SylOnset(song.syls[2]) = MaxSylSamples - 1
    /\ song.syls[2].sylAudio = [lo |-> MaxSylSamples - 4, hi |-> MaxSylSamples]

-----------------------------------------------------------------------------
(* Claims about make_syl_spects and construction, checked under Spec *)

MakeCall == call.op = "make_syl_spects" /\ "syls_to_use" \in song.attrs

\* what Spectrogram.make does with the audio of segment i (1-based) under the
\* arguments of the last make_syl_spects call
SegmentMake(i) ==
    LET hasW == call.make.syl_spect_width.num > 0
        sl   == IF hasW
                THEN FixedWidthSlice(song.rawLen, song.onsets_Hz.val[i],
                                     song.offsets_Hz.val[i], call.width_Hz)
                ELSE NativeSlice(song.rawLen, song.onsets_Hz.val[i],
                                 song.offsets_Hz.val[i])
    IN  SpectrogramMake(SpectrogramObject(call.make.spect_params), SliceLen(sl))

\* the call got as far as the loop and no segment is refused as too long
LoopRuns ==
    /\ MakeCall
    /\ SpectrogramInitError(call.make.spect_params) = NoError
    /\ call.error.what \notin {"width_longer_than_file", "syllable_too_long"}

\* C14: when every segment is selected and exactly one of the N segments
\* raises WindowError inside Spectrogram.make while the others succeed,
\* make_syl_spects does not raise, and the list it stores has N entries in
\* segment order with the NaN marker at exactly that segment.
C14_OneWindowErrorRecovered ==
    (/\ LoopRuns
     /\ \A i \in 1..Len(song.syls_to_use) : song.syls_to_use[i]
     /\ Cardinality({i \in 1..Len(song.labels) :
                        SegmentMake(i).error.kind = "WindowError"}) = 1
     /\ \A i \in 1..Len(song.labels) :
           SegmentMake(i).error.kind \in {"WindowError", "none"})
    => /\ call.error = NoError
       /\ call.make.set_syl_spects =>
            /\ Len(song.syls) = Len(song.labels)
            /\ \A i \in 1..Len(song.syls) :
                  /\ song.syls[i].index = i - 1
                  /\ song.syls[i].spect =
                        IF SegmentMake(i).error.kind = "WindowError"
                        THEN NanSpect ELSE SegmentMake(i).spect

\* the segments (1-based) selected by syls_to_use, ascending
SelectedSegments(s) ==
    Ascending({i \in 1..Len(s.syls_to_use) : s.syls_to_use[i]}, 1, Len(s.syls_to_use))

C16_SecondsAndSamplesAgree ==
    (InitCall /\ song.state = "ok") =>
        /\ {"onsets_s", "offsets_s", "onsets_Hz", "offsets_Hz"} \subseteq song.attrs
        /\ Len(song.onsets_Hz.val) = Len(song.onsets_s.val)
        /\ Len(song.offsets_Hz.val) = Len(song.offsets_s.val)
        /\ \A i \in 1..Len(song.onsets_s.val) :
              /\ song.onsets_Hz.val[i] =
                    RoundHalfEven(RatMulInt(song.onsets_s.val[i], song.sampFreq))
              /\ song.onsets_Hz.val[i] >= 0
              /\ song.onsets_Hz.val[i] < song.rawLen
        /\ \A i \in 1..Len(song.offsets_s.val) :
              /\ song.offsets_Hz.val[i] =
                    RoundHalfEven(RatMulInt(song.offsets_s.val[i], song.sampFreq))
              /\ song.offsets_Hz.val[i] >= 0
              /\ song.offsets_Hz.val[i] <= song.rawLen

\* construction by segmenting, with both dictionaries given and the band the
\* envelope filter needs present in spect_params
FreshCall ==
    /\ InitCall
    /\ ~call.init.use_annotation
    /\ call.init.segment_params.kind = "some"
    /\ call.init.spect_params.kind = "some"
    /\ call.init.file_format \in KnownFormats
    /\ (call.init.file_format = "evtaf"
            \/ call.init.spect_params.val.freq_cutoffs.t # "default")

\* C17: construction by segmenting completes for every recording, one with no
\* detected segment included, and leaves one placeholder label per detected
\* segment: labels, onsets_s, offsets_s, onsets_Hz and offsets_Hz have the
\* same length.
C17_FreshLabelsPerSegment ==
    FreshCall =>
        /\ call.error = NoError
        /\ song.state = "ok"
        /\ \A i \in 1..Len(song.labels) : song.labels[i] = "-"
        /\ song.onsets_s.kind = "array"
        /\ Len(song.labels) = Len(song.onsets_s.val)
        /\ Len(song.labels) = Len(song.offsets_s.val)
        /\ Len(song.labels) = Len(song.onsets_Hz.val)
        /\ Len(song.labels) = Len(song.offsets_Hz.val)

-----------------------------------------------------------------------------
(* A Spectrogram on its own: construction, then make on one input *)

\* configurations that differ in what make looks at
MakeConfigs ==
    [nperseg : {V("int", 2), V("int", 4), V("int", 60)},
     noverlap : {V("int", 0), V("int", 1)},
     freq_cutoffs : {V("None", <<>>), V("default", <<500, 10000>>),
                     V("list", <<1000, 8000>>), V("list", <<2, 4>>)},
     window : {PyNone, V("str", "Hann")},
     filter_func : {PyNone, V("str", "diff"), V("str", "butter_bandpass")},
     spect_func : {PyNone, V("str", "mpl")},
     log_transform_spect : {V("bool", TRUE), V("bool", FALSE)},
     thresh : {V("float", -4), PyNone, V("int", -4)},
     remove_dc : {V("bool", TRUE), V("bool", FALSE)},
     has_ref : {FALSE}]

\* ValidSpectParams with one argument replaced by a value of the wrong
\* type, an unknown name, or a length out of range
OddConfigs ==
    {[ValidSpectParams EXCEPT !.nperseg = x] :
        x \in {PyNone, V("float", 2), V("bool", 1), V("int", 0), V("int", -2)}}
    \cup {[ValidSpectParams EXCEPT !.noverlap = x] :
        x \in {PyNone, V("float", 1), V("int", -1), V("int", 2), V("int", 3)}}
    \cup {[ValidSpectParams EXCEPT !.window = x] :
        x \in {V("str", "hamming"), V("int", 0), V("str", "dpss")}}
    \cup {[ValidSpectParams EXCEPT !.filter_func = x] :
        x \in {V("str", "lowpass"), V("int", 0)}}
    \cup {[ValidSpectParams EXCEPT !.spect_func = x] :
        x \in {V("str", "matlab"), V("int", 0), V("str", "scipy")}}
    \cup {[ValidSpectParams EXCEPT !.freq_cutoffs = x] :
        x \in {V("tuple", <<1000, 8000>>), V("list", <<1000>>),
               V("floatlist", <<1000, 8000>>)}}
    \cup {[ValidSpectParams EXCEPT !.log_transform_spect = V("int", 1)],
          [ValidSpectParams EXCEPT !.thresh = V("str", 0)],
          [ValidSpectParams EXCEPT !.remove_dc = V("int", 1)],
          [ValidSpectParams EXCEPT !.has_ref = TRUE],
          [DefaultSpectParams EXCEPT !.has_ref = TRUE],
          [DefaultSpectParams EXCEPT !.has_ref = TRUE,
                                     !.spect_func = V("str", "scipy")]}

SpectConfigs == MakeConfigs \cup OddConfigs

\* (number of samples, sampling rate) of the audio handed to make
SpectInputs == {<<2, 8>>, <<3, 8>>, <<5, 8>>, <<9, 8>>, <<59, 30000>>, <<120, 30000>>}

InitSpect ==
    /\ \E p \in SpectConfigs, a \in SpectInputs :
          spectIn = [p |-> p, n |-> a[1], samp_freq |-> a[2]]
    /\ spectOut = SpectPending
    /\ segIn = NoSegIn
    /\ segOut = SegPending
    /\ segPrev = SegPending
    /\ song = NoSong
    /\ call = NoCall

\* Spectrogram(**p)
SpectrogramInit ==
    /\ spectOut.status = "pending"
    /\ spectOut' =
          IF SpectrogramInitError(spectIn.p) # NoError
          THEN [spectOut EXCEPT !.status = "init_raised",
                                !.error = SpectrogramInitError(spectIn.p)]
          ELSE [spectOut EXCEPT !.status = "constructed",
                                !.obj = SpectrogramObject(spectIn.p)]
    /\ UNCHANGED <<segIn, segOut, segPrev, song, call, spectIn>>

\* spect_maker.make(raw_audio, samp_freq)
SpectrogramMakeCall ==
    /\ spectOut.status = "constructed"
    /\ LET r == SpectrogramMakeAxes(spectOut.obj, spectIn.n, spectIn.samp_freq)
       IN  spectOut' =
              [spectOut EXCEPT !.status = IF r.error # NoError THEN "make_raised"
                                          ELSE "made",
                               !.error = r.error,
                               !.made = r]
    /\ UNCHANGED <<segIn, segOut, segPrev, song, call, spectIn>>

NextSpect == SpectrogramInit \/ SpectrogramMakeCall

SpecSpect == InitSpect /\ [][NextSpect]_vars

-----------------------------------------------------------------------------
(* Claims about Spectrogram, checked under SpecSpect *)

SpectMade == spectOut.status = "made"

\* the segment length the transform of the last make worked with
MadeNperseg ==
    EffectiveNperseg(spectOut.obj, FilteredLen(spectOut.obj, spectIn.n))

\* C18: whenever make succeeds, whatever remove_dc, log_transform_spect,
\* thresh and freq_cutoffs are, spect has as many rows as freq_bins has
\* entries and as many columns as time_bins has entries, and row j of spect
\* is the transform's row for the frequency freq_bins[j]: DC removal and band
\* cropping take the same rows from both.
C18_RowsMatchFreqBins ==
    SpectMade =>
        /\ Len(spectOut.made.spect.rows) = Len(spectOut.made.freq_bins)
        /\ spectOut.made.spect.cols = spectOut.made.time_bins
        /\ \A j \in 1..Len(spectOut.made.freq_bins) :
              /\ spectOut.made.freq_bins[j].den = MadeNperseg
              /\ spectOut.made.freq_bins[j].num
                    = spectOut.made.spect.rows[j] * spectIn.samp_freq

\* DC removed and the band cropped: bins 2 .. 16 of a 60-sample segment
C18_Witness ==
    /\ SpectMade
    /\ spectOut.obj.remove_dc
    /\ spectOut.obj.logTransformSpect
    /\ spectIn.p.thresh = V("float", -4)
    /\ spectIn.p.freq_cutoffs = V("list", <<1000, 8000>>)
    /\ spectIn.p.filter_func = V("str", "butter_bandpass")
    /\ spectIn.samp_freq = 30000
    /\ spectOut.made.spect.rows = [j \in 1..15 |-> j + 1]
    /\ spectOut.made.spect.cols = 2

BadNameOrType(p) ==
    \/ p.spect_func.t = "str" /\ p.spect_func.v \notin {"scipy", "mpl"}
    \/ p.window.t = "str" /\ p.window.v \notin {"Hann", "dpss"}
    \/ p.filter_func.t = "str"
          /\ p.filter_func.v \notin {"diff", "bandpass_filtfilt", "butter_bandpass"}
    \/ p.nperseg.t # "int"
    \/ p.noverlap.t # "int"

\* nperseg or noverlap not positive, or noverlap not below nperseg
BadLength(p) ==
    /\ p.nperseg.t = "int"
    /\ p.noverlap.t = "int"
    /\ (p.nperseg.v <= 0 \/ p.noverlap.v <= 0 \/ p.noverlap.v >= p.nperseg.v)

\* C20: constructing a Spectrogram raises, and yields no object, when the
\* backend, window or filter name is not an allowed one, when nperseg or
\* noverlap is missing or not an int, when nperseg or noverlap is not
\* positive, and when noverlap >= nperseg.
C20_ConstructionValidates ==
    (spectOut.status # "pending" /\ (BadNameOrType(spectIn.p) \/ BadLength(spectIn.p)))
        => spectOut.status = "init_raised"

\* C21: a Spectrogram is constructed from a preset alone (the keyword ref,
\* without nperseg and noverlap), and a preset given together with explicit
\* fields (nperseg, noverlap, spect_func) still constructs the object
\* instead of failing.
C21_PresetConstructs ==
    (spectOut.status # "pending" /\ spectIn.p.has_ref)
        => spectOut.status # "init_raised"

\* make was called and its pre-filter did not fail
TransformReached ==
    /\ spectOut.status \in {"made", "make_raised"}
    /\ FilterError(spectOut.obj, spectIn.samp_freq) = NoError

\* C22: whenever nperseg exceeds the number of samples handed to the
\* transform (after the pre-filter), make raises WindowError, with either
\* backend and with or without a window; and WindowError is raised for no
\* other reason.
C22_ShortInputRaisesWindowError ==
    TransformReached =>
        ((FilteredLen(spectOut.obj, spectIn.n) < spectOut.obj.nperseg)
            <=> (spectOut.status = "make_raised"
                    /\ spectOut.error.kind = "WindowError"))

-----------------------------------------------------------------------------
(* Further claims about segment_song, checked under SpecSegment *)

PositionIn(s, x) ==
    IF \E k \in 1..Len(s) : s[k] = x
    THEN CHOOSE k \in 1..Len(s) : s[k] = x
    ELSE 0

\* C24: gap merging keeps the first candidate onset and the last candidate
\* offset, keeps as many onsets as offsets, outputs only original rising and
\* falling edges, and each merged segment runs from the onset of its first
\* run to the offset of its last run, the next one starting at the next run.
C24_MergeKeepsOuterEdges ==
    (segOut.status = "returned" /\ segOut.merged_onsets.kind = "array") =>
        LET cOn == segOut.cand_onsets.val
            cOff == segOut.cand_offsets.val
            mOn == segOut.merged_onsets.val
            mOff == segOut.merged_offsets.val
            first(j) == PositionIn(cOn, mOn[j])
            last(j) == PositionIn(cOff, mOff[j])
        IN  /\ Len(mOn) >= 1
            /\ mOn[1] = cOn[1]
            /\ mOff[Len(mOff)] = cOff[Len(cOff)]
            /\ Len(mOn) = Len(mOff)
            /\ \A j \in 1..Len(mOn) :
                  /\ first(j) >= 1
                  /\ last(j) >= first(j)
            /\ first(1) = 1
            /\ last(Len(mOn)) = Len(cOff)
            /\ \A j \in 1..(Len(mOn) - 1) : first(j + 1) = last(j) + 1

\* three runs merged into one segment from the first rising edge to the last
\* falling one
C24_Witness ==
    /\ segOut.status = "returned"
    /\ segOut.merged_onsets.kind = "array"
    /\ Len(segOut.cand_onsets.val) = 3
    /\ Len(segOut.merged_onsets.val) = 1
    /\ segOut.merged_onsets.val[1] = segOut.cand_onsets.val[1]
    /\ segOut.merged_offsets.val[1] = segOut.cand_offsets.val[3]

C27_TimeBinsIndexInRange ==
    (/\ SegDone
     /\ segIn.time_bins.kind = "array"
     /\ segIn.samp_freq.kind = "None"
     /\ Len(segIn.time_bins.val) = Len(segIn.amp))
    => LET above == above_th(segIn.amp, segIn.segment_params.threshold)
           rise == RisingEdges(above)
           fall == FallingEdges(above)
       IN  /\ \A i \in 1..Len(rise) : rise[i] \in 0..(Len(segIn.amp) - 1)
           /\ \A i \in 1..Len(fall) : fall[i] \in 0..(Len(segIn.amp) - 1)
           /\ segOut.status = "returned"

-----------------------------------------------------------------------------
(* Further claims about Spectrogram, checked under SpecSpect *)

SpectConstructed == spectOut.status \in {"constructed", "made", "make_raised"}

\* C25: a Spectrogram constructed with freq_cutoffs and without filter_func
\* has filterFunc 'butter_bandpass'; with an explicit filter_func the stored
\* filterFunc is the given name.
C25_DefaultFilterIsButterBandpass ==
    SpectConstructed =>
        /\ (spectIn.p.freq_cutoffs.t # "None" /\ spectIn.p.filter_func.t = "None")
              => spectOut.obj.filterFunc = "butter_bandpass"
        /\ spectIn.p.filter_func.t # "None"
              => spectOut.obj.filterFunc = spectIn.p.filter_func.v

-----------------------------------------------------------------------------
(* A further claim about make_syl_spects, checked under SpecSyl *)

\* C29: with a fixed width W, every segment with 0 <= onset < offset <=
\* recording length and duration <= W <= recording length lies wholly inside
\* the slice cut for it, whether the slice is the first W samples, the last W
\* samples or centred on the segment.
C29_SliceContainsSegment ==
    FixedWidthCall =>
        \A i \in 1..Len(song.syls) :
            LET syl == song.syls[i]
            IN  (/\ 0 <= SylOnset(syl)
                 /\ SylOnset(syl) < SylOffset(syl)
                 /\ SylOffset(syl) <= song.rawLen
                 /\ SylDur(syl) <= call.width_Hz
                 /\ call.width_Hz <= song.rawLen)
                => /\ 0 <= syl.sylAudio.lo
                   /\ syl.sylAudio.lo <= SylOnset(syl)
                   /\ SylOffset(syl) <= syl.sylAudio.hi
                   /\ syl.sylAudio.hi <= song.rawLen

\* one call whose first syllable, not at sample 0, is cut from the start of
\* the recording and whose second, not at the last sample, from its end
C29_Witness ==
    /\ FixedWidthCall
    /\ Len(song.syls) = 2
    /\ call.width_Hz <= song.rawLen
    /\ SylOnset(song.syls[1]) > 0
    /\ LeftWidth(WidthDiff(song.syls[1])) > SylOnset(song.syls[1])
    /\ song.syls[1].sylAudio.lo = 0
    /\ SylOffset(song.syls[2]) < song.rawLen
    /\ song.syls[2].sylAudio.hi = song.rawLen
    /\ song.syls[2].sylAudio.lo < SylOnset(song.syls[2])

-----------------------------------------------------------------------------
(* Further claims about Song construction, checked under Spec *)

\* C26: constructing a Song from an 'evtaf' annotation without
\* segment_params fails with ValueError (segment_params is required), before
\* anything is compared with the annotation's parameters.
C26_EvtafWithoutParamsIsValueError ==
    (/\ InitCall
     /\ call.init.use_annotation
     /\ call.init.file_format = "evtaf"
     /\ call.init.segment_params.kind = "None")
    => call.error.kind = "ValueError"

\* C30: every constructed Spectrogram has a thresh attribute holding the
\* given threshold as a float (or None), also when thresh was given as a
\* non-float number such as the integer -4, so make can read it.
C30_ThreshAlwaysStored ==
    SpectConstructed =>
        /\ "thresh" \in spectOut.obj.attrs
        /\ spectOut.obj.thresh.v = spectIn.p.thresh.v
        /\ spectOut.error.kind # "AttributeError"

====
